---- MODULE Spec2Model ----
(***************************************************************************)
(* A model of src/main.py, the 3GPP specification downloader: one          *)
(* coordinating thread (main) that loads the state file, scans the series  *)
(* directories, seeds a queue with the files not yet recorded and starts   *)
(* MAX_THREADS worker threads; each worker dequeues URLs and runs          *)
(* download_file, which appends the local path to the shared state list    *)
(* and rewrites the state file with save_state.  The process can be killed *)
(* in the fetch phase and the script invoked again on the same disk.       *)
(*                                                                         *)
(* A URL is the sequence of its '/'-separated segments, a local path the   *)
(* sequence of its components.  The state file is a sequence of tokens:    *)
(* LB, the recorded paths, RB.  A downloaded file is the sequence of the   *)
(* chunks written to it.                                                   *)
(*                                                                         *)
(* Spec is the whole program.  SaveLoadSpec is save_state followed by      *)
(* load_state in one thread, DownloadFileSpec one direct call of           *)
(* download_file, both on every record up to MaxRecord paths.              *)
(***************************************************************************)
EXTENDS Naturals, Sequences, FiniteSets, TLC

\* ---------------------------------------------------------------- bounds
\* Number of worker threads (7 in the source, main.py:28).
MAX_THREADS == 2
\* Number of .zip links the remote listings hold in total.
MaxLinks == 2
\* Number of invocations of the script on the same disk.
MaxRuns == 2

\* --------------------------------------------------------- configuration
BASE_URL == <<"https:", "Rel-9">>
DOWNLOAD_DIR == "data"
SERIES_DIRS == <<"21_series", "22_series">>

Workers == 1..MAX_THREADS
NoUrl == <<>>

\* The remote site: the .zip files that exist, in the order the bound
\* MaxLinks admits them, as <<series directory, file name>>.
AllLinks ==
  << <<"21_series", "x.zip">>, <<"22_series", "x.zip">>,
     <<"21_series", "y.zip">>, <<"22_series", "y.zip">> >>

\* Lexical order of the segments that occur (Python compares strings).
SegOrder ==
  <<"21_series", "22_series", "Rel-9", "https:", "notes.txt", "x.zip", "y.zip">>

SegRank(s) == CHOOSE i \in 1..Len(SegOrder) : SegOrder[i] = s

Range(s) == {s[i] : i \in 1..Len(s)}

Min(a, b) == IF a < b THEN a ELSE b

\* The hrefs of the anchors of the listing page of series_dir, in page order.
\* An href is the sequence of its segments, an absolute one starting with the
\* scheme.  A page links each of its files twice (by name and by absolute
\* URL) and a file that is not an archive; the page of 22_series also links
\* the first file of 21_series.
Listing(series_dir) ==
  LET n == Min(MaxLinks, Len(AllLinks))
      idx == SelectSeq([i \in 1..n |-> i], LAMBDA i : AllLinks[i][1] = series_dir)
      names == [k \in 1..Len(idx) |-> <<AllLinks[idx[k]][2]>>]
      absolute == [k \in 1..Len(idx) |-> BASE_URL \o AllLinks[idx[k]]]
      cross == IF series_dir = "22_series" /\ n >= 1
               THEN <<BASE_URL \o AllLinks[1]>> ELSE <<>>
  IN  names \o absolute \o cross \o << <<"notes.txt">> >>

\* re.compile(r'\.zip$') on an href.
IsZip(href) == href[Len(href)] \in {"x.zip", "y.zip"}

\* urljoin(base, ref) for a base ending in '/': an absolute reference is the
\* result, a relative one is resolved in the base.
urljoin(base, ref) == IF Head(ref) = "https:" THEN ref ELSE base \o ref

\* u < v as Python compares the two URL strings.
RECURSIVE UrlLess(_, _)
UrlLess(u, v) ==
  IF u = <<>> THEN v # <<>>
  ELSE IF v = <<>> THEN FALSE
  ELSE IF Head(u) = Head(v) THEN UrlLess(Tail(u), Tail(v))
  ELSE SegRank(Head(u)) < SegRank(Head(v))

\* sorted(list(set(l)))
RECURSIVE SortSet(_)
SortSet(S) ==
  IF S = {} THEN <<>>
  ELSE LET m == CHOOSE x \in S : \A y \in S \ {x} : UrlLess(x, y)
       IN  <<m>> \o SortSet(S \ {m})

\* Mutant of sorted_set: the list is returned as it was built.
as_built(l) == l

sorted_set(l) == SortSet(Range(l))

\* Mutant of localPath: the file name alone, without the series directory.
localPath_flat(url) == <<DOWNLOAD_DIR, url[Len(url)]>>

\* str(Path(DOWNLOAD_DIR) / url.split('/')[-2] / url.split('/')[-1])
localPath(url) == <<DOWNLOAD_DIR, url[Len(url) - 1], url[Len(url)]>>

\* response.iter_content(block_size): the chunks of the body of url.
iter_content(url) == <<"chunk1", "chunk2">>

\* ----------------------------------------------------------- state file
LB == <<"{">>
RB == <<"}">>

\* json.dump(state, f): the text of the record.
json_dump(downloaded_files) == <<LB>> \o downloaded_files \o <<RB>>

\* Whether json.load accepts the text.
json_ok(text) ==
  /\ Len(text) >= 2
  /\ text[1] = LB
  /\ text[Len(text)] = RB
  /\ \A i \in 2..(Len(text) - 1) : text[i] \notin {LB, RB}

\* json.load(f)["downloaded_files"] of an accepted text.
json_load(text) == SubSeq(text, 2, Len(text) - 1)

\* write(2) of buf at offset 0 of a file opened without O_APPEND: the bytes
\* of the old content behind the written ones stay.
write_at_start(old, buf) == buf \o SubSeq(old, Len(buf) + 1, Len(old))

\* Mutant of load_state: an unreadable file is taken for no progress.
load_state_lenient(exists, text) ==
  IF exists /\ json_ok(text)
  THEN [raised |-> FALSE, downloaded_files |-> json_load(text)]
  ELSE [raised |-> FALSE, downloaded_files |-> <<>>]

\* load_state(): the record, or the exception json.load raises.
load_state(exists, text) ==
  IF ~exists THEN [raised |-> FALSE, downloaded_files |-> <<>>]
  ELSE IF json_ok(text) THEN [raised |-> FALSE, downloaded_files |-> json_load(text)]
  ELSE [raised |-> TRUE, downloaded_files |-> <<>>]

VARIABLES
  mainPc,            \* where main() is
  scanIdx,           \* get_all_spec_files: index of the next series directory
  listed,            \* get_all_spec_files: per directory visited, whether its
                     \* listing was fetched
  all_spec_files,    \* get_all_spec_files: the list built, then main's catalog
  files_to_download, \* main: the filtered list
  state,             \* state["downloaded_files"], shared by the workers
  url_queue,         \* queue.Queue: the items
  unfinished,        \* queue.Queue: unfinished_tasks
  started,           \* number of worker threads started
  wpc,               \* where each worker thread is
  cur,               \* the url each worker holds
  buf,               \* save_state: each worker's unflushed file buffer
  fexists,           \* os.path.exists(STATE_FILE)
  file,              \* the content of STATE_FILE
  store,             \* the files under DOWNLOAD_DIR: local path -> chunks
  gets,              \* item URLs a GET was issued for in this run
  writes,            \* local paths opened for writing in this run
  failed,            \* item URLs whose download failed in this run
  deleted,           \* os.remove(STATE_FILE) was executed in this run
  startFile,         \* the state file as this run found it
  run,               \* number of this invocation
  prevEnd,           \* how the previous invocation ended
  loaded_state       \* test_save_and_load_state: what load_state() returned

vars == <<mainPc, scanIdx, listed, all_spec_files, files_to_download, state, url_queue,
          unfinished, started, wpc, cur, buf, fexists, file, store, gets, writes,
          failed, deleted, startFile, run, prevEnd, loaded_state>>

disk == <<fexists, file, store>>
hist == <<gets, writes, failed, deleted, startFile, run, prevEnd, loaded_state>>
mainVars ==
  <<mainPc, scanIdx, listed, all_spec_files, files_to_download, started>>

\* The in-process state of a fresh invocation.
Fresh ==
  /\ mainPc = "load"
  /\ scanIdx = 1
  /\ listed = <<>>
  /\ all_spec_files = <<>>
  /\ files_to_download = <<>>
  /\ state = <<>>
  /\ url_queue = <<>>
  /\ unfinished = 0
  /\ started = 0
  /\ wpc = [w \in Workers |-> "idle"]
  /\ cur = [w \in Workers |-> NoUrl]
  /\ buf = [w \in Workers |-> <<>>]
  /\ gets = {}
  /\ writes = {}
  /\ failed = {}
  /\ deleted = FALSE

Init ==
  /\ Fresh
  /\ fexists = FALSE
  /\ file = <<>>
  /\ store = <<>>
  /\ startFile = [exists |-> FALSE, text |-> <<>>]
  /\ run = 1
  /\ prevEnd = "none"
  /\ loaded_state = <<>>

\* ------------------------------------------------------------------ main
\* main.py:132-133  the content root is there; state = load_state().  No
\* handler surrounds the call: what load_state raises ends main.
LoadState ==
  /\ mainPc = "load"
  /\ LET r == load_state(fexists, file)
     IN  IF r.raised
         THEN /\ mainPc' = "aborted"
              /\ UNCHANGED state
         ELSE /\ mainPc' = "scan"
              /\ state' = r.downloaded_files
  /\ UNCHANGED <<scanIdx, listed, all_spec_files, files_to_download, url_queue,
                 unfinished, started, wpc, cur, buf, disk, hist>>

\* main.py:52-60  one series directory whose listing is fetched
ScanDirOk ==
  /\ mainPc = "scan"
  /\ scanIdx <= Len(SERIES_DIRS)
  /\ LET series_url == urljoin(BASE_URL, <<SERIES_DIRS[scanIdx]>>)
         links == SelectSeq(Listing(SERIES_DIRS[scanIdx]), IsZip)
     IN  all_spec_files' =
           all_spec_files \o [k \in 1..Len(links) |-> urljoin(series_url, links[k])]
  /\ scanIdx' = scanIdx + 1
  /\ listed' = Append(listed, TRUE)
  /\ UNCHANGED <<mainPc, files_to_download, state, url_queue, unfinished, started,
                 wpc, cur, buf, disk, hist>>

\* Mutant of ScanDirFail: the handler is around the loop, so the first
\* listing that fails ends the scan.
ScanDirFail_ends_scan ==
  /\ mainPc = "scan"
  /\ scanIdx <= Len(SERIES_DIRS)
  /\ scanIdx' = Len(SERIES_DIRS) + 1
  /\ listed' = Append(listed, FALSE)
  /\ UNCHANGED <<mainPc, all_spec_files, files_to_download, state, url_queue,
                 unfinished, started, wpc, cur, buf, disk, hist>>

\* main.py:62-63  one series directory whose listing cannot be fetched
ScanDirFail ==
  /\ mainPc = "scan"
  /\ scanIdx <= Len(SERIES_DIRS)
  /\ scanIdx' = scanIdx + 1
  /\ listed' = Append(listed, FALSE)
  /\ UNCHANGED <<mainPc, all_spec_files, files_to_download, state, url_queue,
                 unfinished, started, wpc, cur, buf, disk, hist>>

\* main.py:65, 135-139  the sorted catalog; an empty one ends the run
ScanDone ==
  /\ mainPc = "scan"
  /\ scanIdx > Len(SERIES_DIRS)
  /\ all_spec_files' = sorted_set(all_spec_files)
  /\ mainPc' = IF all_spec_files = <<>> THEN "nothing" ELSE "seed"
  /\ UNCHANGED <<scanIdx, listed, files_to_download, state, url_queue,
                 unfinished, started, wpc, cur, buf, disk, hist>>

\* Mutant of pending: the record is searched for the URL, not the local path.
pending_by_url(f, downloaded_files) == f \notin Range(downloaded_files)

\* Mutant of pending: an item whose file exists is not pending either.
pending_unless_file_exists(f, downloaded_files) ==
  /\ localPath(f) \notin Range(downloaded_files)
  /\ localPath(f) \notin DOMAIN store

\* main.py:143  whether main puts f on the queue
pending(f, downloaded_files) == localPath(f) \notin Range(downloaded_files)

\* Mutant of Seed: the whole catalog is queued, the record is not consulted.
Seed_unfiltered ==
  /\ mainPc = "seed"
  /\ files_to_download' = all_spec_files
  /\ url_queue' = files_to_download'
  /\ unfinished' = Len(files_to_download')
  /\ mainPc' = "start"
  /\ UNCHANGED <<scanIdx, listed, all_spec_files, state, started, wpc, cur,
                 buf, disk, hist>>

\* main.py:141-146  filter and fill the queue
Seed ==
  /\ mainPc = "seed"
  /\ files_to_download' = SelectSeq(all_spec_files, LAMBDA f : pending(f, state))
  /\ url_queue' = files_to_download'
  /\ unfinished' = Len(files_to_download')
  /\ mainPc' = "start"
  /\ UNCHANGED <<scanIdx, listed, all_spec_files, state, started, wpc, cur,
                 buf, disk, hist>>

\* main.py:152-155  start one worker thread
StartThread ==
  /\ mainPc = "start"
  /\ started < MAX_THREADS
  /\ started' = started + 1
  /\ wpc' = [wpc EXCEPT ![started + 1] = "get"]
  /\ mainPc' = IF started + 1 = MAX_THREADS THEN "join" ELSE "start"
  /\ UNCHANGED <<scanIdx, listed, all_spec_files, files_to_download, state, url_queue,
                 unfinished, cur, buf, disk, hist>>

\* Mutant of Join: main goes on without waiting for the queue's tasks.
Join_without_wait ==
  /\ mainPc = "join"
  /\ mainPc' = "cleanup"
  /\ UNCHANGED <<scanIdx, listed, all_spec_files, files_to_download, state, url_queue,
                 unfinished, started, wpc, cur, buf, disk, hist>>

\* main.py:157  url_queue.join() returns
Join ==
  /\ mainPc = "join"
  /\ unfinished = 0
  /\ mainPc' = "cleanup"
  /\ UNCHANGED <<scanIdx, listed, all_spec_files, files_to_download, state, url_queue,
                 unfinished, started, wpc, cur, buf, disk, hist>>

\* main.py:159-161  remove the state file
Cleanup ==
  /\ mainPc = "cleanup"
  /\ mainPc' = "done"
  /\ IF fexists
     THEN /\ fexists' = FALSE
          /\ file' = <<>>
          /\ deleted' = TRUE
     ELSE UNCHANGED <<fexists, file, deleted>>
  /\ UNCHANGED <<scanIdx, listed, all_spec_files, files_to_download, state,
                 url_queue, unfinished, started, wpc, cur, buf, store, gets,
                 writes, failed, startFile, run, prevEnd,
                 loaded_state>>

\* --------------------------------------------------------------- workers
\* main.py:121, 125-126  url_queue.get_nowait(); queue.Empty ends the thread,
\* whose url goes with it
Dequeue(w) ==
  /\ wpc[w] = "get"
  /\ IF url_queue = <<>>
     THEN /\ wpc' = [wpc EXCEPT ![w] = "exited"]
          /\ cur' = [cur EXCEPT ![w] = NoUrl]
          /\ UNCHANGED url_queue
     ELSE /\ wpc' = [wpc EXCEPT ![w] = "mkdir"]
          /\ cur' = [cur EXCEPT ![w] = Head(url_queue)]
          /\ url_queue' = Tail(url_queue)
  /\ UNCHANGED <<mainVars, state, unfinished, buf, disk, hist>>

\* main.py:86-87  series_dir.mkdir(parents=True, exist_ok=True)
MkdirOk(w) ==
  /\ wpc[w] = "mkdir"
  /\ wpc' = [wpc EXCEPT ![w] = "check"]
  /\ UNCHANGED <<mainVars, state, url_queue, unfinished, cur, buf, disk, hist>>

\* main.py:87  mkdir raises OSError outside the try of download_file: neither
\* download_file nor worker (which catches queue.Empty only) handles it, the
\* thread ends and task_done() is not called for the item.
MkdirFail(w) ==
  /\ wpc[w] = "mkdir"
  /\ wpc' = [wpc EXCEPT ![w] = "dead"]
  /\ failed' = failed \cup {cur[w]}
  /\ UNCHANGED <<mainVars, state, url_queue, unfinished, cur, buf, disk, gets,
                 writes, deleted, startFile, run, prevEnd,
                 loaded_state>>

\* Mutant of Check: the record is not consulted, the item is fetched.
Check_always_fetches(w) ==
  /\ wpc[w] = "check"
  /\ wpc' = [wpc EXCEPT ![w] = "request"]
  /\ UNCHANGED <<mainVars, state, url_queue, unfinished, cur, buf, disk, hist>>

\* main.py:91-92  already recorded: return
Check(w) ==
  /\ wpc[w] = "check"
  /\ wpc' = [wpc EXCEPT ![w] =
       IF localPath(cur[w]) \in Range(state) THEN "task_done" ELSE "request"]
  /\ UNCHANGED <<mainVars, state, url_queue, unfinished, cur, buf, disk, hist>>

\* main.py:95-96  requests.get and raise_for_status succeed
RequestOk(w) ==
  /\ wpc[w] = "request"
  /\ gets' = gets \cup {cur[w]}
  /\ wpc' = [wpc EXCEPT ![w] = "open"]
  /\ UNCHANGED <<mainVars, state, url_queue, unfinished, cur, buf, disk, writes,
                 failed, deleted, startFile, run, prevEnd,
                 loaded_state>>

\* Mutant of RequestFail: the path is recorded although the GET failed (the
\* append moved behind the except clauses).
RequestFail_recorded(w) ==
  /\ wpc[w] = "request"
  /\ gets' = gets \cup {cur[w]}
  /\ failed' = failed \cup {cur[w]}
  /\ wpc' = [wpc EXCEPT ![w] = "append"]
  /\ UNCHANGED <<mainVars, state, url_queue, unfinished, cur, buf, disk, writes,
                 deleted, startFile, run, prevEnd,
                 loaded_state>>

\* main.py:95-96, 111-112  the GET fails: RequestException, caught
RequestFail(w) ==
  /\ wpc[w] = "request"
  /\ gets' = gets \cup {cur[w]}
  /\ failed' = failed \cup {cur[w]}
  /\ wpc' = [wpc EXCEPT ![w] = "task_done"]
  /\ UNCHANGED <<mainVars, state, url_queue, unfinished, cur, buf, disk, writes,
                 deleted, startFile, run, prevEnd,
                 loaded_state>>

\* main.py:101  open(filepath, 'wb') succeeds: the file is created or emptied
OpenOk(w) ==
  /\ wpc[w] = "open"
  /\ writes' = writes \cup {localPath(cur[w])}
  /\ store' = (localPath(cur[w]) :> <<>>) @@ store
  /\ wpc' = [wpc EXCEPT ![w] = "stream"]
  /\ UNCHANGED <<mainVars, state, url_queue, unfinished, cur, buf, fexists, file,
                 gets, failed, deleted, startFile, run, prevEnd,
                 loaded_state>>

\* main.py:101, 113-114  open(filepath, 'wb') fails: IOError, caught
OpenFail(w) ==
  /\ wpc[w] = "open"
  /\ failed' = failed \cup {cur[w]}
  /\ wpc' = [wpc EXCEPT ![w] = "task_done"]
  /\ UNCHANGED <<mainVars, state, url_queue, unfinished, cur, buf, disk, gets,
                 writes, deleted, startFile, run, prevEnd,
                 loaded_state>>

\* main.py:104-106  every chunk is received and written, the file is closed
StreamOk(w) ==
  /\ wpc[w] = "stream"
  /\ store' = (localPath(cur[w]) :> store[localPath(cur[w])] \o iter_content(cur[w]))
                 @@ store
  /\ wpc' = [wpc EXCEPT ![w] = "append"]
  /\ UNCHANGED <<mainVars, state, url_queue, unfinished, cur, buf, fexists, file,
                 hist>>

\* Mutant of StreamFail: the path is recorded although the stream broke off
\* (the append is reached from the except clause as well).
StreamFail_recorded(w) ==
  /\ wpc[w] = "stream"
  /\ \E k \in 0..(Len(iter_content(cur[w])) - 1) :
       store' = (localPath(cur[w]) :>
                   store[localPath(cur[w])] \o SubSeq(iter_content(cur[w]), 1, k))
                 @@ store
  /\ failed' = failed \cup {cur[w]}
  /\ wpc' = [wpc EXCEPT ![w] = "append"]
  /\ UNCHANGED <<mainVars, state, url_queue, unfinished, cur, buf, fexists, file,
                 gets, writes, deleted, startFile, run, prevEnd,
                 loaded_state>>

\* main.py:104-106, 111-114  the stream is interrupted (RequestException) or
\* f.write fails (IOError) after k chunks: caught, the partial file stays
StreamFail(w) ==
  /\ wpc[w] = "stream"
  /\ \E k \in 0..(Len(iter_content(cur[w])) - 1) :
       store' = (localPath(cur[w]) :>
                   store[localPath(cur[w])] \o SubSeq(iter_content(cur[w]), 1, k))
                 @@ store
  /\ failed' = failed \cup {cur[w]}
  /\ wpc' = [wpc EXCEPT ![w] = "task_done"]
  /\ UNCHANGED <<mainVars, state, url_queue, unfinished, cur, buf, fexists, file,
                 gets, writes, deleted, startFile, run, prevEnd,
                 loaded_state>>

\* main.py:108  state["downloaded_files"].append(str(filepath)); no lock is held
AppendState(w) ==
  /\ wpc[w] = "append"
  /\ state' = Append(state, localPath(cur[w]))
  /\ wpc' = [wpc EXCEPT ![w] = "ss_open"]
  /\ UNCHANGED <<mainVars, url_queue, unfinished, cur, buf, disk, hist>>

\* Mutant of SaveOpen: the file is opened without truncation (mode 'r+').
SaveOpen_keeps_content(w) ==
  /\ wpc[w] = "ss_open"
  /\ fexists' = TRUE
  /\ buf' = [buf EXCEPT ![w] = <<>>]
  /\ wpc' = [wpc EXCEPT ![w] = "ss_dump"]
  /\ UNCHANGED <<mainVars, state, url_queue, unfinished, cur, file, store, hist>>

\* main.py:69  open(STATE_FILE, 'w'): creates or truncates the file
SaveOpen(w) ==
  /\ wpc[w] = "ss_open"
  /\ fexists' = TRUE
  /\ file' = <<>>
  /\ buf' = [buf EXCEPT ![w] = <<>>]
  /\ wpc' = [wpc EXCEPT ![w] = "ss_dump"]
  /\ UNCHANGED <<mainVars, state, url_queue, unfinished, cur, store, hist>>

\* main.py:70  json.dump(state, f, indent=4): iterates the live list (which
\* only grows at its end) into the file object's buffer, so the text is that of
\* the list as it is when the iteration ends.  Nothing reaches the file before
\* the close (records below the buffer size of the file object).
SaveDump(w) ==
  /\ wpc[w] = "ss_dump"
  /\ buf' = [buf EXCEPT ![w] = json_dump(state)]
  /\ wpc' = [wpc EXCEPT ![w] = "ss_close"]
  /\ UNCHANGED <<mainVars, state, url_queue, unfinished, cur, disk, hist>>

\* main.py:69-70  leaving the with block: the buffer is written from the
\* handle's own offset 0 and the file closed; save_state returns
SaveClose(w) ==
  /\ wpc[w] = "ss_close"
  /\ file' = write_at_start(file, buf[w])
  /\ buf' = [buf EXCEPT ![w] = <<>>]
  /\ wpc' = [wpc EXCEPT ![w] = "task_done"]
  /\ UNCHANGED <<mainVars, state, url_queue, unfinished, cur, fexists, store, hist>>

\* main.py:123-124  url_queue.task_done()
TaskDone(w) ==
  /\ wpc[w] = "task_done"
  /\ unfinished' = unfinished - 1
  /\ wpc' = [wpc EXCEPT ![w] = "get"]
  /\ UNCHANGED <<mainVars, state, url_queue, cur, buf, disk, hist>>

\* ------------------------------------------------------------ invocations
\* A new process on the same disk: nothing in memory survives, unflushed
\* buffers included.
NewProcess(how) ==
  /\ run < MaxRuns
  /\ run' = run + 1
  /\ prevEnd' = how
  /\ startFile' = [exists |-> fexists, text |-> file]
  /\ mainPc' = "load"
  /\ scanIdx' = 1
  /\ listed' = <<>>
  /\ all_spec_files' = <<>>
  /\ files_to_download' = <<>>
  /\ state' = <<>>
  /\ url_queue' = <<>>
  /\ unfinished' = 0
  /\ started' = 0
  /\ wpc' = [w \in Workers |-> "idle"]
  /\ cur' = [w \in Workers |-> NoUrl]
  /\ buf' = [w \in Workers |-> <<>>]
  /\ gets' = {}
  /\ writes' = {}
  /\ failed' = {}
  /\ deleted' = FALSE
  /\ UNCHANGED <<disk, loaded_state>>

\* The process is killed in the fetch phase (main.py:150-157) and the script
\* is invoked again.  (Killed earlier, it has not touched the disk.)
Crash ==
  /\ mainPc \in {"start", "join"}
  /\ NewProcess("crash")

\* The script is invoked again after main returned (having removed the state
\* file or not) or raised.
Rerun ==
  /\ mainPc \in {"done", "aborted", "nothing"}
  /\ NewProcess(IF deleted THEN "deleted" ELSE "exit")

WorkerStep(w) ==
  \/ Dequeue(w)
  \/ MkdirOk(w)
  \/ MkdirFail(w)
  \/ Check(w)
  \/ RequestOk(w)
  \/ RequestFail(w)
  \/ OpenOk(w)
  \/ OpenFail(w)
  \/ StreamOk(w)
  \/ StreamFail(w)
  \/ AppendState(w)
  \/ SaveOpen(w)
  \/ SaveDump(w)
  \/ SaveClose(w)
  \/ TaskDone(w)

MainStep ==
  \/ LoadState
  \/ ScanDirOk
  \/ ScanDirFail
  \/ ScanDone
  \/ Seed
  \/ StartThread
  \/ Join
  \/ Cleanup

Next ==
  \/ MainStep
  \/ \E w \in Workers : WorkerStep(w)
  \/ Crash
  \/ Rerun

Spec == Init /\ [][Next]_vars

\* ------------------------------------------------- save_state / load_state
\* test_main.py:116-122: one thread (the first of Workers stands for it) calls
\* save_state(state) on a record, then load_state(); or load_state() alone.
MaxRecord == 2

\* Path strings.
Paths == {localPath(BASE_URL \o AllLinks[i]) : i \in 1..Min(MaxLinks, Len(AllLinks))}

\* Lists of path strings under "downloaded_files", repetitions included.
Records == UNION {[1..n -> Paths] : n \in 0..MaxRecord}

\* What STATE_FILE can hold before the call: a record, nothing, a torn text.
OldTexts == {json_dump(r) : r \in Records} \cup {<<>>, <<LB>>}

SaveLoadInit ==
  /\ mainPc = "test"
  /\ scanIdx = 1
  /\ listed = <<>>
  /\ all_spec_files = <<>>
  /\ files_to_download = <<>>
  /\ state \in Records
  /\ url_queue = <<>>
  /\ unfinished = 0
  /\ started = 0
  /\ \E first \in {"ss_open", "idle"} :
       wpc = [w \in Workers |-> IF w = 1 THEN first ELSE "idle"]
  /\ cur = [w \in Workers |-> NoUrl]
  /\ buf = [w \in Workers |-> <<>>]
  /\ gets = {}
  /\ writes = {}
  /\ failed = {}
  /\ deleted = FALSE
  /\ fexists \in BOOLEAN
  /\ file \in (IF fexists THEN OldTexts ELSE {<<>>})
  /\ store = <<>>
  /\ startFile = [exists |-> fexists, text |-> file]
  /\ run = 1
  /\ prevEnd = "none"
  /\ loaded_state = <<>>

\* test_main.py:121  loaded_state = load_state(), outside save_state
TestLoad ==
  /\ mainPc = "test"
  /\ wpc[1] \in {"idle", "task_done"}
  /\ loaded_state' = <<load_state(fexists, file)>>
  /\ mainPc' = "tested"
  /\ UNCHANGED <<scanIdx, listed, all_spec_files, files_to_download, state,
                 url_queue, unfinished, started, wpc, cur, buf, disk, gets,
                 writes, failed, deleted, startFile, run, prevEnd>>

SaveLoadNext ==
  \/ SaveOpen(1)
  \/ SaveDump(1)
  \/ SaveClose(1)
  \/ TestLoad

SaveLoadSpec == SaveLoadInit /\ [][SaveLoadNext]_vars

\* ------------------------------------------------------------ download_file
\* test_main.py:95-104: one thread (the first of Workers stands for it) calls
\* download_file(url, state) on an item URL and a record that holds the item's
\* local path or not; the files of the recorded paths are in the store.
Items == {BASE_URL \o AllLinks[i] : i \in 1..Min(MaxLinks, Len(AllLinks))}

DownloadFileInit ==
  /\ mainPc = "call"
  /\ scanIdx = 1
  /\ listed = <<>>
  /\ all_spec_files = <<>>
  /\ files_to_download = <<>>
  /\ state \in Records
  /\ url_queue = <<>>
  /\ unfinished = 0
  /\ started = 0
  /\ wpc = [w \in Workers |-> IF w = 1 THEN "mkdir" ELSE "idle"]
  /\ \E url \in Items : cur = [w \in Workers |-> IF w = 1 THEN url ELSE NoUrl]
  /\ buf = [w \in Workers |-> <<>>]
  /\ gets = {}
  /\ writes = {}
  /\ failed = {}
  /\ deleted = FALSE
  /\ fexists \in BOOLEAN
  /\ file \in (IF fexists THEN OldTexts ELSE {<<>>})
  /\ store = [p \in Range(state) |-> iter_content(BASE_URL \o Tail(p))]
  /\ startFile = [exists |-> fexists, text |-> file]
  /\ run = 1
  /\ prevEnd = "none"
  /\ loaded_state = <<>>

DownloadFileNext ==
  \/ MkdirOk(1)
  \/ MkdirFail(1)
  \/ Check(1)
  \/ RequestOk(1)
  \/ RequestFail(1)
  \/ OpenOk(1)
  \/ OpenFail(1)
  \/ StreamOk(1)
  \/ StreamFail(1)
  \/ AppendState(1)
  \/ SaveOpen(1)
  \/ SaveDump(1)
  \/ SaveClose(1)

DownloadFileSpec == DownloadFileInit /\ [][DownloadFileNext]_vars

\* ---------------------------------------------------------------- claims
\* The paths recorded in the state file this run found (nothing, when the file
\* is absent or json.load rejects it).
StartRecord ==
  IF startFile.exists /\ json_ok(startFile.text)
  THEN Range(json_load(startFile.text)) ELSE {}

\* The path tokens of the state file this run found, readable or not.
StartTokens == IF startFile.exists THEN Range(startFile.text) \ {LB, RB} ELSE {}

\* The record a reader loads from the state file now.
DurableRecord == IF fexists /\ json_ok(file) THEN Range(json_load(file)) ELSE {}

\* main holds the final catalog.
CatalogBuilt == mainPc \in {"seed", "start", "join", "cleanup", "done"}

\* Worker w is between its append to the record and the return of save_state.
InCritical(w) == wpc[w] \in {"ss_open", "ss_dump", "ss_close"}

\* download_file returned to worker w after recording the item w holds.
Recorded(w) ==
  /\ wpc[w] \in {"task_done", "get"}
  /\ cur[w] # NoUrl
  /\ cur[w] \in gets \ failed

\* Items whose GET, stream or file write failed (the worker got that far).
TransferFailed == failed \cap gets

\* C1: mutual exclusion of the record update and its persist: no two workers
\* are at once between their append to the record and the end of save_state.
C1_MutualExclusion ==
  \A w1, w2 \in Workers : (w1 # w2) => ~(InCritical(w1) /\ InCritical(w2))

\* C2: no lost update: once two workers' save_state calls have returned for
\* distinct items, the in-memory record and the state file both hold both paths.
C2_NoLostUpdate ==
  \A w1, w2 \in Workers :
    (w1 # w2 /\ Recorded(w1) /\ Recorded(w2) /\ mainPc \in {"start", "join"}) =>
      /\ {localPath(cur[w1]), localPath(cur[w2])} \subseteq Range(state)
      /\ {localPath(cur[w1]), localPath(cur[w2])} \subseteq DurableRecord

\* C3: save_state is atomic for a crash or a concurrent reader: whenever the
\* state file exists it holds one complete record, never an empty, truncated
\* or mixed text.
C3_AtomicPersist == fexists => json_ok(file)

\* C4: the state file is deleted only at the end of a fully successful run:
\* never in a run in which an item failed.
C4_DeleteOnlyOnSuccess == deleted => (failed = {})

\* C5: resumability: the run after a crash in the fetch phase starts normally,
\* enqueues exactly the catalog items the state file did not hold, and issues
\* no GET and no file write for an item the state file held.
C5_Resumable ==
  (prevEnd = "crash") =>
    /\ mainPc # "aborted"
    /\ CatalogBuilt /\ mainPc # "seed" =>
         Range(files_to_download) =
           {u \in Range(all_spec_files) : localPath(u) \notin StartTokens}
    /\ \A u \in gets : localPath(u) \notin StartTokens
    /\ writes \cap StartTokens = {}

\* C6: bounded crash loss: in the fetch phase, every item a worker recorded
\* and has moved on from (it dequeued another item or exited) is in the state
\* file.
C6_BoundedCrashLoss ==
  (mainPc \in {"start", "join"}) =>
    \A u \in gets \ failed :
      (/\ localPath(u) \in Range(state)
       /\ \A w \in Workers : cur[w] # u)
      => (fexists /\ localPath(u) \in Range(file))

\* C7: every per-item error is contained and the run terminates: main is
\* never left waiting in url_queue.join() with every worker thread ended and
\* items still queued or unfinished.
C7_ErrorsContained ==
  (mainPc = "join" /\ \A w \in Workers : wpc[w] \in {"exited", "dead"}) =>
    (url_queue = <<>> /\ unfinished = 0)

\* C8: a failed item is never marked as fetched: the local path of an item
\* whose GET, stream or file write failed is neither in the in-memory record
\* nor in the state file for the rest of the run, and the worker that handled
\* it goes on to task_done and the next get_nowait.
C8_FailedNeverMarked ==
  /\ \A u \in TransferFailed :
       /\ localPath(u) \notin Range(state)
       /\ fexists => localPath(u) \notin Range(file)
  /\ \A w \in Workers :
       (cur[w] \in TransferFailed) => wpc[w] \in {"task_done", "get"}

\* A GET or write failed, its worker is back at get_nowait, and another item of
\* the run is recorded.
C8_Witness ==
  \E w \in Workers :
    /\ cur[w] \in TransferFailed
    /\ wpc[w] = "get"
    /\ state # <<>>
    /\ fexists

\* C9: corrupt state is fatal and non-destructive: a run that finds a state
\* file json.load rejects does not get past load_state with a record (it
\* raises), scans no directory, starts no worker, issues no GET, and leaves the
\* file as it found it.
C9_CorruptStateFatal ==
  (startFile.exists /\ ~json_ok(startFile.text)) =>
    /\ mainPc \in {"load", "aborted"}
    /\ scanIdx = 1
    /\ all_spec_files = <<>>
    /\ started = 0
    /\ \A w \in Workers : wpc[w] = "idle"
    /\ gets = {}
    /\ writes = {}
    /\ ~deleted
    /\ fexists
    /\ file = startFile.text

\* main raised on a state file that exists and cannot be parsed.
C9_Witness ==
  /\ mainPc = "aborted"
  /\ startFile.exists
  /\ ~json_ok(startFile.text)

\* The record the run found holds the path of every catalog item.
AllRecorded ==
  /\ CatalogBuilt
  /\ \A u \in Range(all_spec_files) : localPath(u) \in StartRecord

\* C10 as stated: whenever the record at start holds the path of every catalog
\* item, the run enqueues nothing, issues no GET, writes no file and ends with
\* the state file deleted.
C10_IdempotentRerun_Stated ==
  /\ (CatalogBuilt /\ mainPc # "seed" /\ AllRecorded) =>
       (files_to_download = <<>> /\ url_queue = <<>> /\ gets = {} /\ writes = {})
  /\ (mainPc \in {"done", "nothing"}
      /\ \A u \in Range(all_spec_files) : localPath(u) \in StartRecord) =>
       (gets = {} /\ writes = {} /\ ~fexists)

\* C10, amended: when the catalog is not empty and the record at start holds
\* the path of every catalog item, the run enqueues nothing, issues no GET,
\* writes no file and ends with the state file deleted.
C10_IdempotentRerun ==
  /\ (CatalogBuilt /\ mainPc # "seed" /\ AllRecorded) =>
       (files_to_download = <<>> /\ url_queue = <<>> /\ gets = {} /\ writes = {})
  /\ (mainPc = "done" /\ AllRecorded) =>
       (gets = {} /\ writes = {} /\ deleted /\ ~fexists)

\* A run over a catalog that was wholly recorded has ended and removed the file.
C10_Witness ==
  /\ mainPc = "done"
  /\ AllRecorded
  /\ deleted

\* The .zip URLs the listing page of series_dir links.
ZipUrlsOf(series_dir) ==
  {urljoin(BASE_URL \o <<series_dir>>, h) :
     h \in {x \in Range(Listing(series_dir)) : IsZip(x)}}

\* The .zip URLs of the directories visited so far whose listing was fetched.
ListedUrls ==
  UNION {ZipUrlsOf(SERIES_DIRS[i]) : i \in {j \in 1..Len(listed) : listed[j]}}

\* get_all_spec_files has returned.
ScanOver == mainPc \in {"seed", "start", "join", "cleanup", "done", "nothing"}

\* C11: partial-directory failure tolerance: whichever listings fail, every
\* directory is still visited, a failing one adds nothing to the list, the
\* catalog returned holds exactly the items of the directories that were
\* listed, and main is not aborted.
C11_PartialDirectoryFailure ==
  /\ Len(listed) = scanIdx - 1
  /\ (mainPc = "scan" \/ ScanOver) => Range(all_spec_files) = ListedUrls
  /\ ScanOver => Len(listed) = Len(SERIES_DIRS)
  /\ (\E i \in 1..Len(listed) : ~listed[i]) => mainPc # "aborted"

\* The first listing failed, a later one was fetched and its items are the
\* catalog main goes on with.
C11_Witness ==
  /\ mainPc = "seed"
  /\ ~listed[1]
  /\ listed[Len(SERIES_DIRS)]
  /\ all_spec_files # <<>>

\* C12: the catalog is the set union of the .zip URLs of the directories that
\* were listed, keyed by full URL: no URL occurs twice, however many anchors
\* and pages link it, equal file names under different series stay apart, and
\* the sequence ascends in lexical order.
C12_CatalogSortedSet ==
  ScanOver =>
    /\ Range(all_spec_files) = ListedUrls
    /\ Cardinality(Range(all_spec_files)) = Len(all_spec_files)
    /\ \A i, j \in 1..Len(all_spec_files) :
         (i < j) => UrlLess(all_spec_files[i], all_spec_files[j])

\* Both pages were fetched, both link the first file of 21_series, and the
\* catalog holds it once beside the file of the same name of 22_series.
C12_Witness ==
  /\ mainPc = "seed"
  /\ Len(listed) = 2 /\ listed[1] /\ listed[2]
  /\ ZipUrlsOf(SERIES_DIRS[1]) \cap ZipUrlsOf(SERIES_DIRS[2]) # {}
  /\ \E i, j \in 1..Len(all_spec_files) :
       /\ i # j
       /\ all_spec_files[i][Len(all_spec_files[i])] =
            all_spec_files[j][Len(all_spec_files[j])]
       /\ all_spec_files[i] # all_spec_files[j]

\* download_file returns to worker w from a call that recorded its item.
FetchReturns(w) == wpc[w] = "ss_close" /\ wpc'[w] = "task_done"

\* The store and in-memory parts of the post-state of a successful fetch.
FetchStored ==
  [][\A w \in Workers : FetchReturns(w) =>
       LET u == cur[w]
           p == <<DOWNLOAD_DIR, u[Len(u) - 1], u[Len(u)]>>
       IN  /\ p \in DOMAIN store'
           /\ store'[p] = iter_content(u)
           /\ p \in Range(state')]_vars

\* C13: post-state of a successful fetch: when download_file returns after a
\* successful GET and write, the store holds the concatenated chunks at
\* DOWNLOAD_DIR/<series>/<filename>, the in-memory record contains that path,
\* and the state file holds a record that contains it.
C13_SuccessfulFetchPostState ==
  [][\A w \in Workers : FetchReturns(w) =>
       LET u == cur[w]
           p == <<DOWNLOAD_DIR, u[Len(u) - 1], u[Len(u)]>>
       IN  /\ p \in DOMAIN store'
           /\ store'[p] = iter_content(u)
           /\ p \in Range(state')
           /\ fexists' /\ json_ok(file')
           /\ p \in Range(json_load(file'))]_vars

\* C14: state round-trip: load_state() after save_state(record) returns the
\* record that was saved, path for path; load_state() without a state file
\* returns the empty record.
C14_StateRoundTrip ==
  (loaded_state # <<>>) =>
    /\ (wpc[1] = "task_done") =>
         loaded_state[1] = [raised |-> FALSE, downloaded_files |-> state]
    /\ (~fexists) =>
         loaded_state[1] = [raised |-> FALSE, downloaded_files |-> <<>>]

\* A non-empty record was saved over a longer old text and loaded.
C14_Witness ==
  /\ loaded_state # <<>>
  /\ wpc[1] = "task_done"
  /\ state # <<>>
  /\ startFile.exists /\ Len(startFile.text) > Len(file)

\* The paths the in-memory record or the state file names.
RecordedPaths ==
  Range(state) \cup (IF fexists THEN Range(file) \ {LB, RB} ELSE {})

\* Worker w is inside the try block of download_file, before the append.
Transferring(w) == wpc[w] \in {"request", "open", "stream", "append"}

\* C15: causal ordering: a path is in the in-memory record or in the state
\* file only if its file holds all the item's bytes and is closed: never while
\* a worker is still transferring it, never after its transfer failed.
C15_CausalOrdering ==
  /\ \A p \in RecordedPaths :
       /\ p \in DOMAIN store
       /\ store[p] = iter_content(BASE_URL \o Tail(p))
  /\ \A w \in Workers : Transferring(w) => localPath(cur[w]) \notin RecordedPaths
  /\ \A u \in failed : localPath(u) \notin RecordedPaths

\* One item is recorded in memory and on disk while another is being streamed.
C15_Witness ==
  /\ \E w \in Workers : wpc[w] = "stream"
  /\ Range(state) # {}
  /\ fexists /\ Range(state) \subseteq Range(file)

\* Worker w is inside a call of download_file.
InDownloadFile(w) ==
  wpc[w] \in {"mkdir", "check", "request", "open", "stream", "append",
              "ss_open", "ss_dump", "ss_close"}

\* C16: completion barrier: main is past url_queue.join() only when the queue
\* is empty and no worker is inside download_file, so no save_state runs after
\* the state file was removed and the file is absent when main has returned.
C16_CompletionBarrier ==
  /\ (mainPc \in {"cleanup", "done"}) =>
       /\ url_queue = <<>>
       /\ unfinished = 0
       /\ \A w \in Workers : ~InDownloadFile(w) /\ wpc[w] \in {"get", "exited"}
  /\ (mainPc = "done") => ~fexists

\* main removed the state file after two fetches while a worker thread was
\* still alive.
C16_Witness ==
  /\ mainPc = "done"
  /\ deleted
  /\ Cardinality(gets) = 2
  /\ \E w \in Workers : wpc[w] = "get"

\* main has filled the queue.
Seeded == mainPc \in {"start", "join", "cleanup", "done"}

\* C17: work queue: what main queued holds each item URL at most once and is
\* exactly the catalog items whose local path the loaded record does not hold;
\* the queue is always the not yet dequeued rest of it, empty before the
\* seeding, and no step of a run makes it longer once it is seeded.
C17_WorkQueue ==
  /\ [](IF Seeded
        THEN /\ \A i, j \in 1..Len(files_to_download) :
                  (i # j) => files_to_download[i] # files_to_download[j]
             /\ Range(files_to_download) =
                  {u \in Range(all_spec_files) :
                     <<DOWNLOAD_DIR, u[Len(u) - 1], u[Len(u)]>> \notin StartRecord}
             /\ \E k \in 0..Len(files_to_download) :
                  url_queue = SubSeq(files_to_download, k + 1, Len(files_to_download))
        ELSE url_queue = <<>>)
  /\ [][(Seeded /\ run' = run) => Len(url_queue') <= Len(url_queue)]_vars

\* After a crash the record held one of two catalog items: one item was
\* queued, and a worker has taken it.
C17_Witness ==
  /\ Seeded
  /\ StartRecord # {}
  /\ Len(all_spec_files) = 2
  /\ Len(files_to_download) = 1
  /\ url_queue = <<>>
  /\ \E w \in Workers : cur[w] = files_to_download[1]

\* Worker w has the destination file of its item open for writing.
Writing(w) == wpc[w] = "stream"

C20_RerunAfterDeleteRefetches ==
  (prevEnd = "deleted") =>
    /\ ~startFile.exists
    /\ mainPc # "aborted"
    /\ (mainPc \in {"scan", "seed"}) => state = <<>>
    /\ Seeded => files_to_download = all_spec_files
    /\ \A w \in Workers :
         (wpc[w] = "stream") => store[localPath(cur[w])] = <<>>
    /\ (mainPc = "done") => gets = Range(all_spec_files)

\* The run after the removal has queued both catalog items, one of them
\* although its file is whole in the store from the run before, and a worker
\* has emptied the file of the item it fetches.
C20_Witness ==
  /\ prevEnd = "deleted"
  /\ Seeded
  /\ Len(all_spec_files) = 2
  /\ files_to_download = all_spec_files
  /\ \E w \in Workers :
       /\ wpc[w] = "stream"
       /\ store[localPath(cur[w])] = <<>>
       /\ \E u \in Range(all_spec_files) :
            /\ u # cur[w]
            /\ localPath(u) \in DOMAIN store
            /\ store[localPath(u)] = iter_content(u)
            /\ localPath(u) \notin writes

====
